---- MODULE Spec2Model ----
(***************************************************************************)
(* Model of the data-access layer of time-capsule-server:                  *)
(*   - GormDBWrapper     (src/database/gorm_db_wrapper.go)                 *)
(*   - GormRepository[T] (src/unnamed/part_000, lines 1-51)                *)
(*                                                                         *)
(* One wrapper object w is modelled.  Its field w.Mock is either nil or a  *)
(* recorder (variable Mock), its field w.DB is a pointer to a Backend      *)
(* handle (variable DB: the handle's identity, its error slot and the      *)
(* transaction it belongs to).  The Backend (gorm) is outside the          *)
(* repository: it is modelled by its contract only, every call returning   *)
(* a handle (the same one or a new one) whose error slot holds the         *)
(* outcome of that call, chosen by the environment.  In recorder mode the  *)
(* environment is the hook programmed with mock.On(..).Run(..), which may  *)
(* write an error to the slot; the recorder is assumed to be programmed    *)
(* for every call made (an unprogrammed call panics in testify).           *)
(*                                                                         *)
(* Transaction(fc) is modelled in steps, because fc is a callback that     *)
(* performs wrapper calls of its own and may call Transaction again:       *)
(*   TransactionCall    lines 120-126 (Begin and the error check),         *)
(*   Call*, Repo*       the calls fc makes on the handle it was given,     *)
(*   TransactionReturn  lines 129-139 (fc returns; Rollback or Commit).    *)
(***************************************************************************)
EXTENDS Integers, Sequences, FiniteSets, TLC

\* ---------------------------------------------------------------- bounds
MaxCalls   == 3   \* wrapper method calls made by callers and by fc
MaxHandles == 3   \* Backend handles allocated in one behaviour
MaxTx      == 2   \* Backend transactions opened in one behaviour
MaxDepth   == 2   \* nesting depth of Transaction executions
MaxConds   == 1   \* length of a condition list

\* ---------------------------------------------------------------- values
Nil      == "nil"
Errs     == {"E1", "E2"}
ErrVals  == {Nil} \cup Errs
\* the error a Backend reports for Commit/Rollback outside an open transaction
ErrInvalidTransaction == "E1"

CondVals == {"c1", "c2"}
CondLists == UNION {[1..n -> CondVals] : n \in 0..MaxConds}

\* interface{} values handed to the recorder or to the Backend: a plain
\* value, or a []interface{} slice passed as ONE value
Atom(x)   == [kind |-> "atom",  atom |-> x,   elems |-> <<>>]
Slice(cs) == [kind |-> "slice", atom |-> "-", elems |-> cs]
\* `xs...` : every element of the list becomes one argument
Spread(cs) == [i \in 1..Len(cs) |-> Atom(cs[i])]

\* what the environment decides for one call: the outcome of the call and
\* whether the Backend answers with a new handle or with the one it was given
Envs == [err : ErrVals, fresh : BOOLEAN]

\* wrapper objects: the receiver w of every call, and another wrapper that
\* a test may program the recorder to return (mockedTxWrapper)
Receiver == "w"
Wrappers == {Receiver, "x"}

\* a recorder hook decides no handle; a derived session has no outcome.
\* prog is the result programmed with Return(..): the receiver for the data
\* calls, any wrapper for Begin, Commit and Rollback
HookEnvs    == [err : ErrVals, fresh : {FALSE}, prog : {Receiver}]
TxHookEnvs  == [err : ErrVals, fresh : {FALSE}, prog : Wrappers]
SessionEnvs == [err : {Nil}, fresh : BOOLEAN]

VARIABLES
    Mock,        \* w.Mock # nil
    DB,          \* w.DB : [id, Error, tx]   (tx = 0: plain connection)
    nextId,      \* next unused handle identity
    txState,     \* txState[t] : state of Backend transaction t
    trace,       \* wrapper method calls made by the last step, in order
    nInvoked,    \* wrapper methods entered so far
    nRecorded,   \* calls recorded by the recorder so far
    nForwarded,  \* calls forwarded to the Backend so far
    stack,       \* Transaction executions in progress, innermost last
    txRes,       \* outcome of the Transaction execution the last step ended
    repoRes,     \* outcome of the repository operation the last step made
    call         \* the last step: what was called, with which conditions

vars == <<Mock, DB, nextId, txState, trace, nInvoked, nRecorded, nForwarded,
          stack, txRes, repoRes, call>>

\* entities a caller hands to the repository: the primary key and the
\* timestamps are not set yet (stamp 0)
Entities == [data : {"a", "b"}, stamp : {0}]

\* the memory of one repository call: the caller's entity and the parameter
\* obj of the method, which Go copies from it
NoMem == [caller |-> [data |-> "a", stamp |-> 0],
          obj    |-> [data |-> "a", stamp |-> 0]]

\* the cell a pointer argument points to ("none": not an entity of NoMem)
Deref(p) == IF p = "&obj" THEN "obj"
            ELSE IF p = "&caller" THEN "caller"
            ELSE "none"

\* the part of the state a wrapper method reads and writes
Cur == [DB |-> DB, nextId |-> nextId, txState |-> txState, trace |-> <<>>,
        nInvoked |-> nInvoked, nRecorded |-> nRecorded,
        nForwarded |-> nForwarded, mem |-> NoMem]

\* ------------------------------------------------------- recorder, Backend
\* w.Mock.Called(args...): the call is recorded, the programmed hook runs
\* (it may write an error to DB.Error), the programmed return is discarded
Called(s, method, args, env) ==
    [s EXCEPT !.trace     = Append(@, [via |-> "mock", method |-> method,
                                       args |-> args, prog |-> env.prog,
                                       handle |-> s.DB, ret |-> "none"]),
              !.nRecorded = @ + 1,
              !.DB.Error  = IF env.err # Nil THEN env.err ELSE @]

\* the handle the Backend answers with
Returned(s, env, err, tx) ==
    [id    |-> IF env.fresh /\ s.nextId < MaxHandles THEN s.nextId ELSE s.DB.id,
     Error |-> err,
     tx    |-> tx]

Alloc(s, env) ==
    IF env.fresh /\ s.nextId < MaxHandles THEN s.nextId + 1 ELSE s.nextId

InTx(s) == s.DB.tx # 0 /\ s.txState[s.DB.tx] = "active"

\* w.DB.<method>(args...) on the Backend: the call is logged with the handle
\* the Backend answers with, which becomes the DB of the resulting state
Backend(s, method, args, env) ==
    LET ok  == CASE method = "Begin" ->
                      env.err = Nil /\ Len(s.txState) < MaxTx
                 [] method \in {"Commit", "Rollback"} ->
                      env.err = Nil /\ InTx(s)
                 [] OTHER -> env.err = Nil
        err == IF method = "WithContext"
               THEN s.DB.Error     \* a derived session: no outcome of its own
               ELSE IF ok THEN Nil
               ELSE IF env.err = Nil THEN ErrInvalidTransaction
               ELSE env.err
        tx  == IF method = "Begin" /\ ok THEN Len(s.txState) + 1 ELSE s.DB.tx
        out == Returned(s, env, err, tx)
        \* a successful Create, Save or Delete fills in fields of the
        \* entity its first argument points to
        cell == IF method \in {"Create", "Save", "Delete"} /\ ok
                THEN Deref(args[1].atom) ELSE "none"
    IN [s EXCEPT !.mem = IF cell = "none" THEN @
                         ELSE [@ EXCEPT ![cell].stamp = 1],
                 !.trace = Append(@, [via |-> "backend", method |-> method,
                                      args |-> args, prog |-> "none",
                                      handle |-> out, ret |-> "none"]),
                 !.nForwarded = @ + 1,
                 !.nextId = Alloc(s, env),
                 !.txState =
                     IF method = "Begin" /\ ok THEN Append(@, "active")
                     ELSE IF method = "Commit" /\ ok
                          THEN [@ EXCEPT ![s.DB.tx] = "committed"]
                     ELSE IF method = "Rollback" /\ ok
                          THEN [@ EXCEPT ![s.DB.tx] = "rolledback"]
                     ELSE @,
                 !.DB = out]

\* ------------------------------------------------------ GormDBWrapper
Enter(s) == [s EXCEPT !.nInvoked = @ + 1]

\* `return w`: the call just made returns the receiver
ReturnW(s) == [s EXCEPT !.trace[Len(s.trace)].ret = Receiver]

\* the wrapper the last call returned
LastRet(s) == s.trace[Len(s.trace)].ret

\* Create with the recorder branch falling through to the Backend call
CreateNoReturn(s, value, env) ==
    ReturnW(IF Mock
            THEN Backend(Called(Enter(s), "Create", <<Atom(value)>>, env),
                         "Create", <<Atom(value)>>, env)
            ELSE Backend(Enter(s), "Create", <<Atom(value)>>, env))

Create(s, value, env) ==
    ReturnW(IF Mock THEN Called(Enter(s), "Create", <<Atom(value)>>, env)
            ELSE Backend(Enter(s), "Create", <<Atom(value)>>, env))

Find(s, out, where, env) ==
    ReturnW(IF Mock THEN Called(Enter(s), "Find", <<Atom(out), Slice(where)>>, env)
            ELSE Backend(Enter(s), "Find", <<Atom(out)>> \o Spread(where), env))

Delete(s, value, conds, env) ==
    ReturnW(IF Mock THEN Called(Enter(s), "Delete", <<Atom(value), Slice(conds)>>, env)
            ELSE Backend(Enter(s), "Delete", <<Atom(value), Slice(conds)>>, env))

First(s, dest, conds, env) ==
    ReturnW(IF Mock THEN Called(Enter(s), "First", <<Atom(dest), Slice(conds)>>, env)
            ELSE Backend(Enter(s), "First", <<Atom(dest), Slice(conds)>>, env))

\* Save without the assignment of the Backend's answer to w.DB
SaveNoAssign(s, value, env) ==
    ReturnW(IF Mock THEN Called(Enter(s), "Save", <<Atom(value)>>, env)
            ELSE [Backend(Enter(s), "Save", <<Atom(value)>>, env)
                      EXCEPT !.DB = s.DB])

Save(s, value, env) ==
    ReturnW(IF Mock THEN Called(Enter(s), "Save", <<Atom(value)>>, env)
            ELSE Backend(Enter(s), "Save", <<Atom(value)>>, env))

WithContext(s, ctx, env) ==
    ReturnW(IF Mock THEN Called(Enter(s), "WithContext", <<Atom(ctx)>>, env)
            ELSE Backend(Enter(s), "WithContext", <<Atom(ctx)>>, env))

GetDB(s) == s.DB

Begin(s, env) ==
    ReturnW(IF Mock THEN Called(Enter(s), "Begin", <<>>, env)
            ELSE Backend(Enter(s), "Begin", <<>>, env))

Rollback(s, env) ==
    ReturnW(IF Mock THEN Called(Enter(s), "Rollback", <<>>, env)
            ELSE Backend(Enter(s), "Rollback", <<>>, env))

Commit(s, env) ==
    ReturnW(IF Mock THEN Called(Enter(s), "Commit", <<>>, env)
            ELSE Backend(Enter(s), "Commit", <<>>, env))

\* Transaction without the check of the error slot after Begin
TransactionBeginNoCheck(s, env) ==
    LET txWrapper == Begin(s, env)
    IN [s        |-> txWrapper,
        txWrapper |-> LastRet(txWrapper),
        returned |-> FALSE,
        ret      |-> GetDB(txWrapper).Error]

\* Transaction, lines 121-126: Begin, then the check of the error slot
TransactionBegin(s, env) ==
    LET txWrapper == Begin(s, env)
    IN [s        |-> txWrapper,
        txWrapper |-> LastRet(txWrapper),
        returned |-> GetDB(txWrapper).Error # Nil,
        ret      |-> GetDB(txWrapper).Error]

\* Transaction deciding on the handle's error slot instead of fc's result
TransactionEndOnSlot(s, err, env) ==
    IF GetDB(s).Error # Nil
    THEN [s |-> Rollback(s, env), ret |-> err]
    ELSE [s |-> Commit(s, env),   ret |-> Nil]

\* Transaction with the `return err` after Rollback missing
TransactionEndNoReturn(s, err, env) ==
    IF err # Nil
    THEN [s |-> Commit(Rollback(s, env), env), ret |-> Nil]
    ELSE [s |-> Commit(s, env),                ret |-> Nil]

\* Transaction returning Rollback's error when Rollback fails
TransactionEndRollbackErr(s, err, env) ==
    IF err # Nil
    THEN LET rolled == Rollback(s, env)
         IN [s   |-> rolled,
             ret |-> IF GetDB(rolled).Error # Nil THEN GetDB(rolled).Error
                     ELSE err]
    ELSE [s |-> Commit(s, env), ret |-> Nil]

\* Transaction, lines 129-138: fc has returned err
TransactionEnd(s, err, env) ==
    IF err # Nil
    THEN [s |-> Rollback(s, env), ret |-> err]
    ELSE [s |-> Commit(s, env),   ret |-> Nil]

\* ------------------------------------------------------ GormRepository[T]
\* a method called with the entity by value: the parameter obj is the
\* method's own copy of the caller's entity
ByValue(s) == [s EXCEPT !.mem.obj = s.mem.caller]

\* Create reading the error slot of the handle it had before the data call
RepositoryCreateStale(s, e1, e2) ==
    LET with_context == WithContext(ByValue(s), "ctx", e1)
        create       == Create(with_context, "&obj", e2)
        db           == GetDB(with_context)
    IN [s |-> create, ret |-> db.Error]

RepositoryCreate(s, e1, e2) ==
    LET with_context == WithContext(ByValue(s), "ctx", e1)
        create       == Create(with_context, "&obj", e2)
        db           == GetDB(create)
    IN [s |-> create, ret |-> db.Error]

RepositoryFind(s, conds, e1, e2) ==
    LET r == Find(WithContext(s, "ctx", e1), "&results", conds, e2)
    IN [s |-> r, ret |-> GetDB(r).Error]

RepositoryFirst(s, conds, e1, e2) ==
    LET r == First(WithContext(s, "ctx", e1), "&result", conds, e2)
    IN [s |-> r, ret |-> GetDB(r).Error]

\* Save trying the data call a second time when it failed
RepositorySaveRetry(s, e1, e2) ==
    LET r == Save(WithContext(ByValue(s), "ctx", e1), "&obj", e2)
        again == Save(r, "&obj", e2)
    IN IF GetDB(r).Error # Nil
       THEN [s |-> again, ret |-> GetDB(again).Error]
       ELSE [s |-> r, ret |-> GetDB(r).Error]

RepositorySave(s, e1, e2) ==
    LET r == Save(WithContext(ByValue(s), "ctx", e1), "&obj", e2)
    IN [s |-> r, ret |-> GetDB(r).Error]

\* Delete taking the entity by reference and forwarding the caller's pointer
RepositoryDeleteByRef(s, e1, e2) ==
    LET r == Delete(WithContext(s, "ctx", e1), "&caller", <<>>, e2)
    IN [s |-> r, ret |-> GetDB(r).Error]

RepositoryDelete(s, e1, e2) ==
    LET r == Delete(WithContext(ByValue(s), "ctx", e1), "&obj", <<>>, e2)
    IN [s |-> r, ret |-> GetDB(r).Error]

\* ---------------------------------------------------------------- state
NoTx   == [done |-> FALSE, ret |-> Nil, beginErr |-> Nil, fnCalled |-> FALSE,
           fnErr |-> Nil, fnSlot |-> Nil, commits |-> 0, rollbacks |-> 0,
           tx |-> 0, state |-> "idle", slot |-> Nil, beginOwn |-> Nil,
           idBefore |-> 0, txBefore |-> 0, endTx |-> 0]
NoRepo == [done |-> FALSE, op |-> "none", ret |-> Nil, ctx |-> Nil,
           outcome |-> Nil, slot |-> Nil, callerBefore |-> NoMem.caller,
           callerAfter |-> NoMem.caller, objAfter |-> NoMem.obj]
NoCall == [method |-> "none", conds |-> <<>>, own |-> 0, target |-> 0]

Count(tr, m) == Cardinality({i \in 1..Len(tr) : tr[i].method = m})

Init ==
    /\ Mock \in BOOLEAN
    /\ DB = [id |-> 0, Error |-> Nil, tx |-> 0]
    /\ nextId = 1
    /\ txState = <<>>
    /\ trace = <<>>
    /\ nInvoked = 0
    /\ nRecorded = 0
    /\ nForwarded = 0
    /\ stack = <<>>
    /\ txRes = NoTx
    /\ repoRes = NoRepo
    /\ call = NoCall

\* the wrapper state s becomes the current state
Store(s) ==
    /\ DB' = s.DB
    /\ nextId' = s.nextId
    /\ txState' = s.txState
    /\ trace' = s.trace
    /\ nInvoked' = s.nInvoked
    /\ nRecorded' = s.nRecorded
    /\ nForwarded' = s.nForwarded
    /\ UNCHANGED Mock

\* the choices the environment has for a call, and for a WithContext call
CallEnvs == IF Mock THEN HookEnvs ELSE Envs
TxEnvs   == IF Mock THEN TxHookEnvs ELSE Envs
CtxEnvs  == IF Mock THEN HookEnvs ELSE SessionEnvs

\* ------------------------------------------- calls on the wrapper itself
\* made by any caller, also by fc on the handle Transaction gave it
Direct(s, method, conds) ==
    /\ nInvoked < MaxCalls
    /\ Store(s)
    /\ call' = [method |-> method, conds |-> conds,
                own |-> DB.tx, target |-> DB.tx]
    /\ txRes' = NoTx
    /\ repoRes' = NoRepo
    /\ UNCHANGED stack

CallCreate == \E env \in CallEnvs : Direct(Create(Cur, "&v", env), "Create", <<>>)

CallFind ==
    \E env \in CallEnvs, where \in CondLists :
        Direct(Find(Cur, "&out", where, env), "Find", where)

CallDelete ==
    \E env \in CallEnvs, conds \in CondLists :
        Direct(Delete(Cur, "&v", conds, env), "Delete", conds)

CallFirst ==
    \E env \in CallEnvs, conds \in CondLists :
        Direct(First(Cur, "&dest", conds, env), "First", conds)

CallSave == \E env \in CallEnvs : Direct(Save(Cur, "&v", env), "Save", <<>>)

CallWithContext ==
    \E env \in CtxEnvs : Direct(WithContext(Cur, "ctx", env), "WithContext", <<>>)

\* manual transaction control, by any caller, fc included
CallBegin == \E env \in TxEnvs : Direct(Begin(Cur, env), "Begin", <<>>)

CallRollback ==
    \E env \in TxEnvs : Direct(Rollback(Cur, env), "Rollback", <<>>)

CallCommit == \E env \in TxEnvs : Direct(Commit(Cur, env), "Commit", <<>>)

\* ------------------------------------------------- repository operations
\* the state in which the caller holds entity v and calls the repository
Holding(v) == [Cur EXCEPT !.mem.caller = v]

Repo(r, op, conds, e1, e2, v) ==
    /\ nInvoked + 2 <= MaxCalls
    /\ Store(r.s)
    /\ repoRes' = [done |-> TRUE, op |-> op, ret |-> r.ret, ctx |-> e1.err,
                   outcome |-> e2.err, slot |-> r.s.DB.Error,
                   callerBefore |-> v, callerAfter |-> r.s.mem.caller,
                   objAfter |-> r.s.mem.obj]
    /\ call' = [method |-> op, conds |-> conds,
                own |-> DB.tx, target |-> DB.tx]
    /\ txRes' = NoTx
    /\ UNCHANGED stack

RepoCreate ==
    \E e1 \in CtxEnvs, e2 \in CallEnvs, v \in Entities :
        Repo(RepositoryCreate(Holding(v), e1, e2), "Create", <<>>, e1, e2, v)

RepoFind ==
    \E e1 \in CtxEnvs, e2 \in CallEnvs, conds \in CondLists :
        Repo(RepositoryFind(Cur, conds, e1, e2), "Find", conds, e1, e2,
             NoMem.caller)

RepoFirst ==
    \E e1 \in CtxEnvs, e2 \in CallEnvs, conds \in CondLists :
        Repo(RepositoryFirst(Cur, conds, e1, e2), "First", conds, e1, e2,
             NoMem.caller)

RepoSave ==
    \E e1 \in CtxEnvs, e2 \in CallEnvs, v \in Entities :
        Repo(RepositorySave(Holding(v), e1, e2), "Save", <<>>, e1, e2, v)

RepoDelete ==
    \E e1 \in CtxEnvs, e2 \in CallEnvs, v \in Entities :
        Repo(RepositoryDelete(Holding(v), e1, e2), "Delete", <<>>, e1, e2, v)

\* ------------------------------------------------------------ Transaction
\* the Backend transaction a Begin opened (0: none)
Opened(s) == IF Len(s.txState) > Len(txState) THEN Len(s.txState) ELSE 0

\* Transaction is called (by any caller, or by fc on its handle): Begin,
\* then either the early return or the call of fc
TransactionCall ==
    /\ nInvoked < MaxCalls
    /\ Len(stack) < MaxDepth
    /\ \E env \in TxEnvs :
         LET b == TransactionBegin(Cur, env)
         IN /\ Store(b.s)
            /\ IF b.returned
               THEN /\ txRes' = [done |-> TRUE, ret |-> b.ret,
                                 beginErr |-> GetDB(b.s).Error,
                                 fnCalled |-> FALSE, fnErr |-> Nil,
                                 fnSlot |-> Nil,
                                 commits |-> Count(b.s.trace, "Commit"),
                                 rollbacks |-> Count(b.s.trace, "Rollback"),
                                 tx |-> Opened(b.s),
                                 state |-> IF Opened(b.s) = 0 THEN "idle"
                                           ELSE b.s.txState[Opened(b.s)],
                                 slot |-> GetDB(b.s).Error,
                                 beginOwn |-> IF Mock THEN env.err
                                              ELSE GetDB(b.s).Error,
                                 idBefore |-> DB.id, txBefore |-> DB.tx,
                                 endTx |-> 0]
                    /\ UNCHANGED stack
               ELSE /\ stack' = Append(stack,
                                   [beginErr |-> GetDB(b.s).Error,
                                    tx |-> Opened(b.s),
                                    handle |-> b.txWrapper,
                                    idBefore |-> DB.id,
                                    txBefore |-> DB.tx])
                    /\ txRes' = NoTx
    /\ call' = [method |-> "Transaction", conds |-> <<>>,
                own |-> DB.tx, target |-> DB.tx]
    /\ repoRes' = NoRepo

\* the stack without its i-th frame
Without(i) == SubSeq(stack, 1, i - 1) \o SubSeq(stack, i + 1, Len(stack))

\* fc returns err to the Transaction execution of frame i, which rolls back
\* or commits on the wrapper and returns
Finish(i, err, env) ==
    LET f == stack[i]
        r == TransactionEnd(Cur, err, env)
    IN /\ Store(r.s)
       /\ txRes' = [done |-> TRUE, ret |-> r.ret,
                    beginErr |-> f.beginErr,
                    fnCalled |-> TRUE, fnErr |-> err,
                    fnSlot |-> DB.Error,
                    commits |-> Count(r.s.trace, "Commit"),
                    rollbacks |-> Count(r.s.trace, "Rollback"),
                    tx |-> f.tx,
                    state |-> IF f.tx = 0 THEN "idle"
                              ELSE r.s.txState[f.tx],
                    slot |-> GetDB(r.s).Error,
                    beginOwn |-> Nil,
                    idBefore |-> f.idBefore, txBefore |-> f.txBefore,
                    endTx |-> DB.tx]
       /\ stack' = Without(i)
       /\ call' = [method |-> "Transaction", conds |-> <<>>,
                   own |-> f.tx, target |-> DB.tx]
       /\ repoRes' = NoRepo

\* fc returns err to the innermost Transaction, which rolls back or commits
\* (a Transaction that called fc always gets to this point: the Rollback or
\* Commit it makes is not counted against MaxCalls)
TransactionReturn ==
    /\ stack # <<>>
    /\ \E err \in ErrVals, env \in TxEnvs : Finish(Len(stack), err, env)

\* ---------------------------------------------- nested composition only
\* fc makes data calls and calls Transaction again, and leaves Begin, Commit
\* and Rollback to Transaction
NextNested ==
    \/ CallCreate \/ CallFind \/ CallDelete \/ CallFirst \/ CallSave
    \/ CallWithContext
    \/ RepoCreate \/ RepoFind \/ RepoFirst \/ RepoSave \/ RepoDelete
    \/ TransactionCall \/ TransactionReturn

SpecNested == Init /\ [][NextNested]_vars

\* ------------------------------------- two callers sharing the wrapper
\* Executions of Transaction started by different goroutines on the same
\* wrapper: each frame of stack is one execution, they are not nested, and
\* any of them may make the next call.  Calls are interleaved as wholes.
ConcurrentCreate ==
    /\ nInvoked < MaxCalls
    /\ \E i \in DOMAIN stack, env \in CallEnvs :
         /\ Store(Create(Cur, "&v", env))
         /\ call' = [method |-> "Create", conds |-> <<>>,
                     own |-> stack[i].tx, target |-> DB.tx]
    /\ txRes' = NoTx
    /\ repoRes' = NoRepo
    /\ UNCHANGED stack

ConcurrentReturn ==
    \E i \in DOMAIN stack, err \in ErrVals, env \in TxEnvs :
        Finish(i, err, env)

NextConcurrent == TransactionCall \/ ConcurrentCreate \/ ConcurrentReturn

SpecConcurrent == Init /\ [][NextConcurrent]_vars

Next ==
    \/ CallCreate \/ CallFind \/ CallDelete \/ CallFirst \/ CallSave
    \/ CallWithContext \/ CallBegin \/ CallRollback \/ CallCommit
    \/ RepoCreate \/ RepoFind \/ RepoFirst \/ RepoSave \/ RepoDelete
    \/ TransactionCall \/ TransactionReturn

Spec == Init /\ [][Next]_vars

TypeOK ==
    /\ Mock \in BOOLEAN
    /\ DB.id \in 0..(MaxHandles - 1) /\ DB.Error \in ErrVals
    /\ DB.tx \in 0..Len(txState)
    /\ Len(txState) <= MaxTx
    /\ nInvoked \in 0..(MaxCalls + MaxDepth)
    /\ Len(stack) <= MaxDepth

\* ================================================================ claims
\* A Transaction execution has returned in this state, after calling fc
Returned_fc == txRes.done /\ txRes.fnCalled

\* C1: in every execution of Transaction whose Begin left the error slot
\* nil, an fc that returns an error makes the execution invoke Rollback
\* exactly once and Commit never, and an fc that returns nil makes it invoke
\* Commit exactly once and Rollback never, whatever the slot held when fc
\* returned.
C1_RollbackOrCommitByFnResult ==
    (txRes.done /\ txRes.beginErr = Nil) =>
        /\ txRes.fnCalled
        /\ txRes.fnErr # Nil => (txRes.commits = 0 /\ txRes.rollbacks = 1)
        /\ txRes.fnErr = Nil => (txRes.rollbacks = 0 /\ txRes.commits = 1)

\* fc left an error in the slot, returned nil, and the execution committed
C1_Witness ==
    /\ Returned_fc /\ txRes.beginErr = Nil
    /\ txRes.fnErr = Nil /\ txRes.fnSlot # Nil
    /\ txRes.commits = 1 /\ txRes.rollbacks = 0

\* C2 (as claimed): when fc returns nil, Transaction returns the outcome of
\* Commit, that is the error slot of the handle after Commit.
C2_ReturnsCommitOutcome ==
    (Returned_fc /\ txRes.fnErr = Nil /\ txRes.commits = 1) =>
        txRes.ret = txRes.slot

\* C3 (as claimed): every execution of Transaction, the one whose Begin
\* reports an error included, invokes exactly one of Commit and Rollback.
C3_ExactlyOneOnEveryPath ==
    txRes.done => txRes.commits + txRes.rollbacks = 1

\* C3 (amended): an execution whose Begin left the error slot nil invokes
\* exactly one of Commit and Rollback; an execution whose Begin reported an
\* error invokes neither.
C3_ExactlyOneAfterBegin ==
    txRes.done =>
        IF txRes.beginErr = Nil
        THEN txRes.commits + txRes.rollbacks = 1
        ELSE txRes.commits = 0 /\ txRes.rollbacks = 0

\* Begin reported an error and the execution returned with neither call
C3_Witness ==
    /\ txRes.done /\ txRes.beginErr # Nil /\ ~txRes.fnCalled
    /\ txRes.commits + txRes.rollbacks = 0

\* C4: when the error slot is non-nil right after Begin, Transaction returns
\* that error, fc is not invoked, and no transaction becomes active.
C4_BeginErrorShortCircuits ==
    (txRes.done /\ txRes.beginErr # Nil) =>
        /\ txRes.ret = txRes.beginErr
        /\ ~txRes.fnCalled
        /\ txRes.state = "idle"

\* Begin reported an error inside an fc (a nested call) and it was returned
C4_Witness ==
    /\ txRes.done /\ txRes.beginErr # Nil /\ txRes.ret = txRes.beginErr
    /\ stack # <<>>

\* C5: when fc returns the error E, Transaction returns exactly E, whether
\* Rollback succeeds or fails and whatever the slot holds after Rollback.
C5_FnErrorReturnedUnchanged ==
    (Returned_fc /\ txRes.fnErr # Nil) => txRes.ret = txRes.fnErr

\* fc returned E, Rollback left a different error in the slot, E came back
C5_Witness ==
    /\ Returned_fc /\ txRes.fnErr # Nil /\ txRes.rollbacks = 1
    /\ txRes.slot # Nil /\ txRes.slot # txRes.fnErr
    /\ txRes.ret = txRes.fnErr

\* C6 (as claimed, for the executions that called fc on a live Backend):
\* whenever Transaction returns an error, the transaction its Begin opened
\* has ended rolled back.
C6_ErrorMeansRolledBack ==
    (~Mock /\ Returned_fc /\ txRes.ret # Nil) => txRes.state = "rolledback"

\* C7 (as claimed): a repository operation whose own calls succeed returns
\* nil, also when an earlier operation on the wrapper left an error in the
\* slot.
C7_SuccessReturnsNil ==
    (repoRes.done /\ repoRes.ctx = Nil /\ repoRes.outcome = Nil) =>
        repoRes.ret = Nil

\* C8: the error a repository operation returns is the error slot of the
\* wrapper's handle after the data call: nil iff the slot is nil, and E
\* itself when the data call set the slot to E.
C8_ReturnsSlotVerbatim ==
    repoRes.done =>
        /\ repoRes.ret = DB.Error
        /\ repoRes.outcome # Nil => repoRes.ret = repoRes.outcome

\* a data call failed with E after an earlier error and E was returned
C8_Witness ==
    /\ repoRes.done /\ repoRes.outcome # Nil /\ repoRes.ret = repoRes.outcome
    /\ repoRes.ctx # repoRes.outcome
    /\ nInvoked > 2

\* C9 (as claimed): in live mode the condition arguments the Backend receives
\* from Find, First and Delete are the ones the caller passed: same length,
\* same elements, same order.
C9_ConditionsForwardedUnchanged ==
    (~Mock /\ call.method \in {"Find", "First", "Delete"}) =>
        LET last == trace[Len(trace)]
        IN /\ last.method = call.method
           /\ Tail(last.args) = Spread(call.conds)

\* C10: with a recorder attached every wrapper method call is recorded once,
\* none reaches the Backend and the wrapper keeps the handle it was built
\* with; without a recorder every call is forwarded once and none recorded.
C10_ModesExclusive ==
    /\ \A i \in 1..Len(trace) :
           trace[i].via = IF Mock THEN "mock" ELSE "backend"
    /\ Mock => /\ nRecorded = nInvoked /\ nForwarded = 0
               /\ DB.id = 0 /\ DB.tx = 0
    /\ ~Mock => nForwarded = nInvoked /\ nRecorded = 0

\* a recorded Transaction: Begin, a Create by fc, Commit, no Backend call
C10_Witness ==
    /\ Mock /\ Returned_fc /\ txRes.commits = 1
    /\ nRecorded = 3 /\ nForwarded = 0 /\ DB.id = 0

\* C11 (as claimed): in recorder mode every wrapper method returns the result
\* programmed for the call, and the handle Transaction passes to fc is the
\* wrapper Begin was programmed to return.
C11_ReturnsProgrammedResult ==
    Mock =>
        /\ \A i \in 1..Len(trace) : trace[i].ret = trace[i].prog
        /\ (call.method = "Transaction" /\ ~txRes.done) =>
               stack[Len(stack)].handle = trace[1].prog

\* C12 (as claimed, for the executions that called fc): in live mode, when
\* Transaction has returned, the wrapper holds the handle it held before the
\* call, not a handle of the transaction.
C12_HandleRestoredAfterTransaction ==
    (~Mock /\ Returned_fc) =>
        /\ DB.id = txRes.idBefore
        /\ DB.tx = txRes.txBefore

\* C13 (as claimed): with nested Transaction calls, the Commit or Rollback of
\* every execution, outer and inner, is applied to the transaction its own
\* Begin opened; so an outer fc that returns the inner failure gets the outer
\* transaction rolled back.
C13_NestedEndsOwnTransaction ==
    (~Mock /\ Returned_fc) => txRes.endTx = txRes.tx

\* C14 (as claimed): when executions of Transaction on one wrapper interleave,
\* the calls of each execution, and its final Commit or Rollback, are applied
\* to the transaction its own Begin opened.
C14_InterleavedUseOwnHandle ==
    ~Mock =>
        /\ Returned_fc => txRes.endTx = txRes.tx
        /\ call.method = "Create" => call.target = call.own

\* C15 (as claimed): Transaction returns without calling fc only when Begin
\* itself failed, not because of an error an earlier operation left in the
\* slot.
C15_ShortCircuitOnlyOnBeginFailure ==
    (txRes.done /\ ~txRes.fnCalled) => txRes.beginOwn # Nil

\* C16: a repository operation calls WithContext once, then the data method
\* of its own name once, and no other wrapper method, whether the data call
\* succeeds or fails.
C16_SingleRoundTrip ==
    repoRes.done =>
        /\ Len(trace) = 2
        /\ trace[1].method = "WithContext"
        /\ trace[2].method = repoRes.op

\* the data call failed and was made once, after one WithContext
C16_Witness ==
    /\ repoRes.done /\ repoRes.outcome # Nil /\ repoRes.ret # Nil
    /\ Len(trace) = 2 /\ trace[2].method = repoRes.op

\* C17: every wrapper method returns the receiver, in both modes, and in live
\* mode the handle GetDB gives right after a call is the one the Backend
\* returned for that call, with the error state of that call.
C17_ReturnsReceiverKeepsHandle ==
    /\ \A i \in 1..Len(trace) : trace[i].ret = Receiver
    /\ (~Mock /\ trace # <<>>) => GetDB(Cur) = trace[Len(trace)].handle

\* a live call failed, the Backend answered with a new handle, GetDB has it
C17_Witness ==
    /\ ~Mock /\ trace # <<>>
    /\ trace[Len(trace)].handle.id # 0
    /\ trace[Len(trace)].handle.Error # Nil
    /\ DB = trace[Len(trace)].handle
    /\ trace[Len(trace)].ret = Receiver

\* C18: Create, Save and Delete of the repository forward a pointer to their
\* own copy of the entity, so the caller's entity is the same after the call
\* as before it, whatever the Backend wrote through the pointer.
C18_CallerEntityUnchanged ==
    (repoRes.done /\ repoRes.op \in {"Create", "Save", "Delete"}) =>
        /\ repoRes.callerAfter = repoRes.callerBefore
        /\ trace[2].args[1] = Atom("&obj")
        /\ repoRes.objAfter.data = repoRes.callerBefore.data

\* a live Delete succeeded and the Backend filled in the copy only
C18_Witness ==
    /\ ~Mock /\ repoRes.done /\ repoRes.op = "Delete" /\ repoRes.ret = Nil
    /\ repoRes.objAfter.stamp = 1
    /\ repoRes.callerAfter.stamp = 0
    /\ repoRes.callerBefore.data = "b"

====
